---- MODULE Spec2Model ----
(***************************************************************************)
(* cxmusic: the WebDAV service (server registry, connection manager,       *)
(* notification bus) and the track resolver of the file browser.           *)
(*                                                                         *)
(* JavaScript runs one task at a time: an async function runs without      *)
(* interruption from one await to the next.  Every action below is one     *)
(* such segment; a continuation that follows an already settled promise    *)
(* runs in the same segment as the settlement.                             *)
(***************************************************************************)
EXTENDS Integers, Sequences, FiniteSets, TLC

(* ------------------------------ bounds --------------------------------- *)

\* number of service calls (connect, setup, verify, ...) made in one run
MaxCalls == 2

\* number of track resolutions made in one run
MaxResolves == 2

\* number of callbacks subscribed at one time
MaxSubscribers == 3

\* number of entries a remote directory holds
MaxEntries == 3

\* number of pieces a file name is made of
MaxPieces == 5

\* number of loadFiles calls of the file browser
MaxLoads == 3

\* number of setupPlayer calls
MaxSetups == 3

(* ------------------------------- values --------------------------------- *)

Calls == 1..MaxCalls

\* server configurations; S3 has no url
S1 == [id |-> "s1", url |-> "u1"]
S2 == [id |-> "s2", url |-> "u2"]
S3 == [id |-> "s3", url |-> ""]
ServerConfigs == {S1, S2, S3}

NullConfig == [id |-> "", url |-> ""]

\* the value null of currentServer; a client handle is a positive number, 0 is null
NullServer == [id |-> "", url |-> "", client |-> 0]

\* what AsyncStorage may hold under WEBDAV_SERVERS_KEY when the process starts
StoredServerValues ==
    {[kind |-> "absent", list |-> <<>>],
     [kind |-> "corrupt", list |-> <<>>],
     [kind |-> "list", list |-> <<S1>>],
     [kind |-> "list", list |-> <<S1, S2>>],
     [kind |-> "list", list |-> <<S3, S2>>]}

\* what AsyncStorage may hold under CURRENT_WEBDAV_SERVER_KEY ("" is absent)
StoredIdValues == {"", "s2"}

\* remote files: two directories hold a file with the same leaf name
RemoteFiles ==
    {[filename |-> "/a/x.mp3", basename |-> "x.mp3"],
     [filename |-> "/b/x.mp3", basename |-> "x.mp3"],
     [filename |-> "/a/y.mp3", basename |-> "y.mp3"]}

Basenames == {f.basename : f \in RemoteFiles}

NoFile == [filename |-> "", basename |-> ""]

Resolves == 1..MaxResolves

\* the callbacks handed to subscribeToWebDAVStatus, by what they do when called:
\* "hook" is the callback of useCurrentWebDAVServer, "throws" raises an error,
\* "leaver" calls its own unsubscribe function, "joiner" subscribes "late",
\* "late" does nothing
Callbacks == {"hook", "throws", "leaver", "joiner", "late"}

VARIABLES
    webdavClient,     \* let webdavClient: the client handle, 0 is null
    currentServer,    \* let currentServer: {...server, client} or NullServer
    servers,          \* let servers: the registry list
    storedServers,    \* AsyncStorage[WEBDAV_SERVERS_KEY]
    storedCurrentId,  \* AsyncStorage[CURRENT_WEBDAV_SERVER_KEY]
    published,        \* number of notifySubscribers() rounds made by the latest step
    subscribers,      \* const subscribers: the subscribed callbacks, in order
    round,            \* the latest notifySubscribers() round: the callbacks it called
    seenServer,       \* useCurrentWebDAVServer: the hook's server state
    listing,          \* the file browser: its getDirectoryContents call and records
    isInitialized,    \* _layout: the isInitialized state
    calls,            \* the service calls of this run, by slot
    lastCall,         \* the record of the call that settled last
    cacheFiles,       \* the files under webdav_cache/, by basename
    resolves,         \* the cacheWebDAVFile calls of this run, by slot
    input,            \* the argument of the pure function under study
    output,           \* its result, once it has been applied
    browser,          \* the file browser screen: its state, refs, loads and timers
    player            \* useSetupTrackPlayer: the module's flags and the setupPlayer calls

busVars == <<subscribers, round, seenServer>>
svcVars == <<webdavClient, currentServer, servers, storedServers, storedCurrentId,
             published, isInitialized, calls, lastCall, busVars>>
resVars == <<cacheFiles, resolves, listing>>
uiVars == <<browser, player>>
extVars == <<input, output, uiVars>>
vars == <<webdavClient, currentServer, servers, storedServers, storedCurrentId,
          published, isInitialized, calls, lastCall, cacheFiles, resolves,
          subscribers, round, seenServer, listing, input, output, browser,
          player>>

(* ----------------------------- notification bus ------------------------- *)

\* no round has been made
NoRound == [invoked |-> <<>>, thrown |-> FALSE]

\* subscribers.indexOf(callback) and splice(index, 1): the first occurrence goes
RemoveFirst(subs, cb) ==
    IF \E i \in 1..Len(subs) : subs[i] = cb
    THEN LET i == CHOOSE k \in 1..Len(subs) :
                     subs[k] = cb /\ \A j \in 1..(k - 1) : subs[j] # cb
         IN  SubSeq(subs, 1, i - 1) \o SubSeq(subs, i + 1, Len(subs))
    ELSE subs

\* notifySubscribers iterates over subscribersCopy = [...subscribers], not over
\* the array the callbacks may change
SubscribersLive(copy, live) == live
SubscribersCopy(copy, live) == copy

\* the try/catch around callback(): an error of a callback is logged
CallbackCaught(cb) == TRUE

\* the forEach of notifySubscribers from position i on: b is the bus so far
\* (the live subscribers, the callbacks called, whether an error escaped, what
\* the hook holds), server is currentServer at the time of the round
RECURSIVE RunCallbacks(_, _, _, _)
RunCallbacks(copy, i, b, server) ==
    LET list == SubscribersCopy(copy, b.subs)
    IN  IF i > Len(list) \/ b.thrown
        THEN b
        ELSE LET cb == list[i]
                 called == [b EXCEPT !.invoked = Append(@, cb)]
             IN  RunCallbacks(copy, i + 1,
                    CASE cb = "hook" -> [called EXCEPT !.seen = server]
                      [] cb = "throws" -> [called EXCEPT !.thrown = ~CallbackCaught(cb)]
                      [] cb = "leaver" -> [called EXCEPT !.subs = RemoveFirst(@, cb)]
                      [] cb = "joiner" -> [called EXCEPT !.subs = Append(@, "late")]
                      [] OTHER -> called,
                    server)

\* one notifySubscribers() round
NotifySubscribers(subs, seen, server) ==
    RunCallbacks(subs, 1,
                 [subs |-> subs, invoked |-> <<>>, thrown |-> FALSE, seen |-> seen],
                 server)

RECURSIVE NotifyRounds(_, _, _)
\* n rounds in a row
NotifyRounds(n, b, server) ==
    IF n = 0 THEN b
    ELSE NotifyRounds(n - 1, NotifySubscribers(b.subs, b.seen, server), server)

\* a step that makes n notifySubscribers() rounds, the last of them when the
\* current server is `server`
Publish(n, server) ==
    /\ published' = n
    /\ IF n = 0
       THEN UNCHANGED busVars
       ELSE \E b \in {NotifyRounds(n, [subs |-> subscribers, invoked |-> <<>>,
                                        thrown |-> FALSE, seen |-> seenServer],
                                    server)} :
                /\ subscribers' = b.subs
                /\ round' = [invoked |-> b.invoked, thrown |-> b.thrown]
                /\ seenServer' = b.seen

\* subscribeToWebDAVStatus(cb): subscribers.push(cb)
SubscribeToWebDAVStatus ==
    /\ Len(subscribers) < MaxSubscribers
    /\ \E cb \in Callbacks : subscribers' = Append(subscribers, cb)
    /\ published' = 0
    /\ UNCHANGED <<webdavClient, currentServer, servers, storedServers,
                   storedCurrentId, isInitialized, calls, lastCall, round,
                   seenServer, cacheFiles, resolves, listing, extVars>>

\* the function that subscribeToWebDAVStatus(cb) returned is called
Unsubscribe ==
    /\ \E i \in 1..Len(subscribers) :
         subscribers' = RemoveFirst(subscribers, subscribers[i])
    /\ published' = 0
    /\ UNCHANGED <<webdavClient, currentServer, servers, storedServers,
                   storedCurrentId, isInitialized, calls, lastCall, round,
                   seenServer, cacheFiles, resolves, listing, extVars>>

\* an operation of the service calls notifySubscribers() (the list is kept
\* within its bound: a round in which callbacks subscribe needs room for them)
NotifyRound ==
    /\ Len(NotifySubscribers(subscribers, seenServer, currentServer).subs)
          <= MaxSubscribers
    /\ Publish(1, currentServer)
    /\ UNCHANGED <<webdavClient, currentServer, servers, storedServers,
                   storedCurrentId, isInitialized, calls, lastCall,
                   cacheFiles, resolves, listing, extVars>>

(* ------------------------------ service calls --------------------------- *)

\* a call slot that has not been used yet
IdleCall ==
    [op |-> "idle", pc |-> "idle", caller |-> "", server |-> NullConfig,
     client |-> 0, stage |-> 0, attempts |-> <<>>, loadedId |-> "",
     result |-> "none", err |-> "none", superseded |-> FALSE,
     id |-> "", index |-> 0, snapshot |-> <<>>]

\* createClient(server.url, ...): a fresh handle for every call
\* (stage 0: a plain connect, 1 and 2: the two attempts of setupWebDAV)
Handle(c, stage) == 3 * (c - 1) + stage + 1

\* slots are used in order
CanStart(c) ==
    /\ calls[c].pc = "idle"
    /\ IF c = 1 THEN TRUE ELSE calls[c - 1].pc # "idle"

\* the record of a settled call: what it returned and how far it got
Done(rec, result, err) ==
    [rec EXCEPT !.pc = "done", !.result = result, !.err = err,
                !.server = NullConfig, !.snapshot = <<>>]

\* an outcome of one run-to-the-next-await: the call's new record, the number of
\* notifySubscribers() rounds made, and whether the session was reset to null
Outcome(rec, n, cleared) == [rec |-> rec, n |-> n, cleared |-> cleared]

\* setupWebDAV wraps the connection attempt `stage` in its own try/catch
SetupAttemptCaughtFirstOnly(stage) == stage = 1
SetupAttemptCaught(stage) == TRUE

\* currentServer = {...server, client}
SessionWithoutClient(rec) ==
    [id |-> rec.server.id, url |-> rec.server.url, client |-> 0]
ConnectedServer(rec) ==
    [id |-> rec.server.id, url |-> rec.server.url, client |-> rec.client]

\* the 10 s timer of connectToServer is armed for as long as the probe is awaited
ConnectTimerNever(rec) == FALSE
ConnectTimerArmed(rec) == rec.pc = "probe"

\* servers[index] as the code reads it after an await: undefined (here NullConfig,
\* which connectToServer rejects at its first check) when the list has become
\* shorter than index
ServerAt(index) ==
    IF index >= 1 /\ index <= Len(servers) THEN servers[index] ELSE NullConfig

\* the end of updateWebDAVServer: notifySubscribers() has run, and
\* logInfo(servers[index].name) throws a TypeError into the outer catch, which
\* rethrows, when servers[index] is undefined
UpdateEnd(rec, err) ==
    IF rec.index <= Len(servers)
    THEN Done(rec, "resolved", err)
    ELSE Done(rec, "rejected", "type")

RECURSIVE AfterConnectRejected(_, _, _)
RECURSIVE BeginConnect(_, _, _, _)

\* setupWebDAV, second attempt: the first entry of the registry, if there is one;
\* otherwise the final notifySubscribers() and return
SetupSecondAttemptLast(rec, c) ==
    IF Len(servers) > 0
    THEN BeginConnect(rec, servers[Len(servers)], 2, c)
    ELSE {Outcome(Done(rec, "resolved",
                       IF rec.err = "none" THEN "empty" ELSE rec.err), 1, FALSE)}
SetupSecondAttempt(rec, c) ==
    IF Len(servers) > 0
    THEN BeginConnect(rec, servers[1], 2, c)
    ELSE {Outcome(Done(rec, "resolved",
                       IF rec.err = "none" THEN "empty" ELSE rec.err), 1, FALSE)}

\* connectToServer has thrown `err`: its catch block resets the session, notifies
\* and rethrows; then the caller's continuation runs
AfterConnectRejected(rec, err, c) ==
    CASE rec.op = "connect" -> {Outcome(Done(rec, "rejected", err), 1, TRUE)}
      [] rec.op = "testServer" -> {Outcome(Done(rec, "false", err), 1, TRUE)}
      [] rec.op = "setDefault" -> {Outcome(Done(rec, "false", err), 1, TRUE)}
      [] rec.op = "update" ->
            \* the inner catch of updateWebDAVServer logs; notifySubscribers()
            {Outcome(UpdateEnd(rec, err), 2, TRUE)}
      [] rec.op = "setup" /\ ~SetupAttemptCaught(rec.stage) ->
            \* the outer catch: reset, notify, rethrow
            {Outcome(Done(rec, "rejected", err), 2, TRUE)}
      [] rec.op = "setup" /\ SetupAttemptCaught(rec.stage) /\ rec.stage = 1 ->
            {Outcome(o.rec, o.n + 1, TRUE) :
                o \in SetupSecondAttempt([rec EXCEPT !.err = err], c)}
      [] rec.op = "setup" /\ SetupAttemptCaught(rec.stage) /\ rec.stage = 2 ->
            \* falls through to the final notifySubscribers()
            {Outcome(Done(rec, "resolved", err), 2, TRUE)}

\* connectToServer(srv) up to its first await: the url check and createClient,
\* which may throw; then the probe and its timer are started
BeginConnect(rec0, srv, stage, c) ==
    LET rec == [rec0 EXCEPT !.server = srv, !.stage = stage,
                            !.attempts = Append(@, srv.id)]
    IN  IF srv.url = ""
        THEN AfterConnectRejected(rec, "nourl", c)
        ELSE {Outcome([rec EXCEPT !.pc = "probe", !.client = Handle(c, stage)],
                      0, FALSE)}
             \cup AfterConnectRejected(rec, "client", c)

\* connectToServer has resolved: the caller's continuation
AfterConnectResolved(rec) ==
    CASE rec.op = "connect" -> Outcome(Done(rec, "resolved", "none"), 1, FALSE)
      [] rec.op = "testServer" -> Outcome(Done(rec, "true", "none"), 1, FALSE)
      [] rec.op = "setDefault" -> Outcome(Done(rec, "true", "none"), 2, FALSE)
      [] rec.op = "update" -> Outcome(UpdateEnd(rec, "none"), 2, FALSE)
      [] rec.op = "setup" -> Outcome(Done(rec, "resolved", "none"), 2, FALSE)

\* a slot whose call has settled; what the call returned is kept in lastCall
SettledCall == [IdleCall EXCEPT !.op = "settled", !.pc = "done"]

\* call c goes on as rec, or has settled as rec
Continue(c, rec) ==
    /\ calls' = [calls EXCEPT ![c] = IF rec.pc = "done" THEN SettledCall ELSE rec]
    /\ lastCall' = IF rec.pc = "done" THEN rec ELSE lastCall

\* the effect of outcome o of call c on the calls and on the notification count;
\* a call whose probe is in flight when another call starts its own probe is
\* marked superseded
Settle(c, o) ==
    /\ lastCall' = IF o.rec.pc = "done" THEN o.rec ELSE lastCall
    /\ calls' = [d \in Calls |->
                    IF d = c THEN (IF o.rec.pc = "done" THEN SettledCall ELSE o.rec)
                    ELSE IF o.rec.pc = "probe" /\ o.rec.client # calls[c].client
                            /\ calls[d].pc = "probe"
                         THEN [calls[d] EXCEPT !.superseded = TRUE]
                         ELSE calls[d]]
    /\ Publish(o.n, IF o.cleared THEN NullServer ELSE currentServer)
    /\ isInitialized' =
          (isInitialized
             \/ (o.rec.op = "setup" /\ o.rec.caller = "init" /\ o.rec.pc = "done"))

\* the effect of outcome o on the session
SettleSession(o) ==
    /\ webdavClient' = IF o.cleared THEN 0 ELSE webdavClient
    /\ currentServer' = IF o.cleared THEN NullServer ELSE currentServer

(* ------------------------- connectToServer and callers ------------------ *)

\* connectToServer(srv) called directly
ConnectToServer(c) ==
    /\ CanStart(c)
    /\ \E srv \in ServerConfigs :
         \E o \in BeginConnect([IdleCall EXCEPT !.op = "connect"], srv, 0, c) :
            Settle(c, o) /\ SettleSession(o)
    /\ UNCHANGED <<servers, storedServers, storedCurrentId, resVars, extVars>>

\* the test button of a listed server: safeAction(() => connectToServer(server))
HandleTestServer(c) ==
    /\ CanStart(c)
    /\ \E i \in 1..Len(servers) :
         \E o \in BeginConnect([IdleCall EXCEPT !.op = "testServer"], servers[i], 0, c) :
            Settle(c, o) /\ SettleSession(o)
    /\ UNCHANGED <<servers, storedServers, storedCurrentId, resVars, extVars>>

\* setDefaultWebDAVServer(id): unknown id gives false, otherwise connectToServer
SetDefaultWebDAVServer(c) ==
    /\ CanStart(c)
    /\ \E id \in {"s1", "s2", "s9"} :
         LET found == {i \in 1..Len(servers) : servers[i].id = id}
             rec == [IdleCall EXCEPT !.op = "setDefault", !.id = id]
         IN  IF found = {}
             THEN /\ Settle(c, Outcome(Done(rec, "false", "notfound"), 0, FALSE))
                  /\ UNCHANGED <<webdavClient, currentServer>>
             ELSE \E o \in BeginConnect(rec, servers[CHOOSE i \in found :
                                                \A j \in found : i <= j], 0, c) :
                     Settle(c, o) /\ SettleSession(o)
    /\ UNCHANGED <<servers, storedServers, storedCurrentId, resVars, extVars>>

\* the probe client.getDirectoryContents('/') resolves before the timer fires:
\* the session is stored and AsyncStorage.setItem(CURRENT..., id) is awaited
ProbeSucceeds(c) ==
    /\ calls[c].pc = "probe"
    /\ webdavClient' = calls[c].client
    /\ currentServer' = ConnectedServer(calls[c])
    /\ calls' = [calls EXCEPT ![c].pc = "saveId"]
    /\ lastCall' = lastCall
    /\ Publish(0, currentServer)
    /\ UNCHANGED <<servers, storedServers, storedCurrentId, isInitialized, resVars, extVars>>

\* the probe rejects before the timer fires
ProbeFails(c) ==
    /\ calls[c].pc = "probe"
    /\ \E o \in AfterConnectRejected(calls[c], "probe", c) :
            Settle(c, o) /\ SettleSession(o)
    /\ UNCHANGED <<servers, storedServers, storedCurrentId, resVars, extVars>>

\* the timer fires first: Promise.race rejects with the timeout error
ProbeTimesOut(c) ==
    /\ ConnectTimerArmed(calls[c])
    /\ \E o \in AfterConnectRejected(calls[c], "timeout", c) :
            Settle(c, o) /\ SettleSession(o)
    /\ UNCHANGED <<servers, storedServers, storedCurrentId, resVars, extVars>>

\* AsyncStorage.setItem settles (a failure is logged and ignored), the
\* subscribers are notified and connectToServer resolves
SaveIdSettles(c) ==
    /\ calls[c].pc = "saveId"
    /\ \E ok \in BOOLEAN :
         storedCurrentId' = IF ok THEN calls[c].server.id ELSE storedCurrentId
    /\ Settle(c, AfterConnectResolved(calls[c]))
    /\ UNCHANGED <<webdavClient, currentServer, servers, storedServers, resVars, extVars>>

(* ----------------------------- server registry ------------------------- *)

\* Date.now() and Math.random().toString(36).substring(2, 9) as addWebDAVServer
\* may read them: the wall clock can give the same millisecond twice, and the
\* random suffix can repeat
Timestamps == {"1", "2"}
Suffixes == {"a", "b"}

\* `webdav_${Date.now()}_${Math.random().toString(36).substring(2, 9)}`
NewServerId(t, r) == "webdav_" \o t \o "_" \o r

\* the urls of the configurations handed to addWebDAVServer
AddUrls == {"u3", "u1"}

\* the urls handed to updateWebDAVServer ("" makes the reconnect fail at once)
UpdateUrls == {"u9", ""}

\* the ids handed to update, delete and setDefault: those listed and an unknown one
TargetIds == {servers[i].id : i \in 1..Len(servers)} \cup {"s9"}

\* servers.findIndex((s) => s.id === id), 0 for -1
FindIndexOrLast(id) ==
    IF \E i \in 1..Len(servers) : servers[i].id = id
    THEN CHOOSE i \in 1..Len(servers) :
            servers[i].id = id /\ \A j \in 1..(i - 1) : servers[j].id # id
    ELSE Len(servers)
FindIndex(id) ==
    IF \E i \in 1..Len(servers) : servers[i].id = id
    THEN CHOOSE i \in 1..Len(servers) :
            servers[i].id = id /\ \A j \in 1..(i - 1) : servers[j].id # id
    ELSE 0

\* servers.splice(index, 1): nothing is removed when index is past the end
Splice(list, index) ==
    IF index >= 1 /\ index <= Len(list)
    THEN SubSeq(list, 1, index - 1) \o SubSeq(list, index + 1, Len(list))
    ELSE list

\* saveWebDAVServers() up to its await: JSON.stringify(servers) is taken now
SaveWebDAVServers(rec, list) == [rec EXCEPT !.pc = "save", !.snapshot = list]

\* addWebDAVServer(config) up to the await of saveWebDAVServers()
AddWebDAVServer(c) ==
    /\ CanStart(c)
    /\ \E url \in AddUrls, t \in Timestamps, r \in Suffixes :
         LET newServer == [id |-> NewServerId(t, r), url |-> url]
         IN  /\ servers' = Append(servers, newServer)
             /\ Continue(c, SaveWebDAVServers(
                    [IdleCall EXCEPT !.op = "add", !.id = newServer.id,
                                     !.server = newServer],
                    Append(servers, newServer)))
    /\ Publish(0, currentServer)
    /\ UNCHANGED <<webdavClient, currentServer, storedServers, storedCurrentId,
                   isInitialized, resVars, extVars>>

\* updateWebDAVServer(id, {url}) up to its first await; an unknown id throws
UpdateWebDAVServer(c) ==
    /\ CanStart(c)
    /\ \E id \in TargetIds, url \in UpdateUrls :
         LET index == FindIndex(id)
             rec == [IdleCall EXCEPT !.op = "update", !.id = id, !.index = index]
             updated == [servers EXCEPT ![index].url = url]
         IN  IF index = 0
             THEN /\ Continue(c, Done(rec, "rejected", "notfound"))
                  /\ UNCHANGED servers
             ELSE /\ servers' = updated
                  /\ Continue(c, SaveWebDAVServers(rec, updated))
    /\ Publish(0, currentServer)
    /\ UNCHANGED <<webdavClient, currentServer, storedServers, storedCurrentId,
                   isInitialized, resVars, extVars>>

\* deleteWebDAVServer(id) up to its first await; an unknown id throws.  For the
\* current server the session is reset and removeItem(CURRENT...) is awaited,
\* for any other the entry is spliced out and the list is saved
DeleteWebDAVServer(c) ==
    /\ CanStart(c)
    /\ \E id \in TargetIds :
         LET index == FindIndex(id)
             rec == [IdleCall EXCEPT !.op = "delete", !.id = id, !.index = index]
         IN  IF index = 0
             THEN /\ Continue(c, Done(rec, "rejected", "notfound"))
                  /\ UNCHANGED <<servers, webdavClient, currentServer>>
             ELSE IF currentServer.id = id
             THEN /\ webdavClient' = 0
                  /\ currentServer' = NullServer
                  /\ Continue(c, [rec EXCEPT !.pc = "removeId"])
                  /\ UNCHANGED servers
             ELSE /\ servers' = Splice(servers, index)
                  /\ Continue(c, SaveWebDAVServers(rec, Splice(servers, index)))
                  /\ UNCHANGED <<webdavClient, currentServer>>
    /\ Publish(0, currentServer)
    /\ UNCHANGED <<storedServers, storedCurrentId, isInitialized, resVars, extVars>>

\* AsyncStorage.removeItem(CURRENT...) settles: on success the entry at the index
\* found before the await is spliced out and the list is saved; a failure goes to
\* the catch block, which rethrows
RemoveIdSettles(c) ==
    /\ calls[c].pc = "removeId"
    /\ \/ /\ storedCurrentId' = ""
          /\ servers' = Splice(servers, calls[c].index)
          /\ Continue(c, SaveWebDAVServers(calls[c], Splice(servers, calls[c].index)))
       \/ /\ Continue(c, Done(calls[c], "rejected", "storage"))
          /\ UNCHANGED <<servers, storedCurrentId>>
    /\ Publish(0, currentServer)
    /\ UNCHANGED <<webdavClient, currentServer, storedServers, isInitialized,
                   resVars, extVars>>

\* the setItem of saveWebDAVServers settles; a failure is logged inside
\* saveWebDAVServers and not rethrown.  add and delete then notify and return;
\* update reconnects when the id is the current server's, then notifies
SaveServersSettles(c) ==
    /\ calls[c].pc = "save"
    /\ \E ok \in BOOLEAN :
         /\ storedServers' = IF ok THEN [kind |-> "list", list |-> calls[c].snapshot]
                                   ELSE storedServers
         /\ LET rec == [calls[c] EXCEPT !.err = IF ok THEN "none" ELSE "save"]
            IN  \E o \in (IF rec.op = "update"
                          THEN (IF currentServer.id = rec.id
                                THEN BeginConnect(rec, ServerAt(rec.index), 0, c)
                                ELSE {Outcome(UpdateEnd(rec, rec.err), 1, FALSE)})
                          ELSE {Outcome(Done(rec, "resolved", rec.err), 1, FALSE)}) :
                   Settle(c, o) /\ SettleSession(o)
    /\ UNCHANGED <<servers, storedCurrentId, resVars, extVars>>

(* ------------------------------- setupWebDAV ---------------------------- *)

\* JSON.parse of the stored text and the Array.isArray check: a missing entry
\* and a text that does not parse to an array both give the empty list
ParseServers(stored) ==
    IF stored.kind = "list" THEN stored.list ELSE <<>>

\* setupWebDAV() up to its first await.  It is called by initializeApp when the
\* application starts ("init") and, while there is no current server, by the
\* re-check of the root layout and by the navigation to the WebDAV tab ("recheck")
StartSetup(c) ==
    /\ CanStart(c)
    /\ \E caller \in {"init", "recheck"} :
         /\ caller = "init" =>
               ~isInitialized /\ \A d \in Calls : calls[d].caller # "init"
         /\ caller = "recheck" => currentServer = NullServer
         /\ Continue(c, [IdleCall EXCEPT !.op = "setup", !.pc = "loadServers",
                                          !.caller = caller])
    /\ webdavClient' = 0
    /\ currentServer' = NullServer
    /\ Publish(0, currentServer)
    /\ UNCHANGED <<servers, storedServers, storedCurrentId, isInitialized, resVars, extVars>>

\* AsyncStorage.getItem(WEBDAV_SERVERS_KEY) settles; a read error gives the empty
\* list.  With an empty registry setup notifies and returns
SetupLoadServers(c) ==
    /\ calls[c].pc = "loadServers"
    /\ \E readOk \in BOOLEAN :
         LET loaded == IF readOk THEN ParseServers(storedServers) ELSE <<>>
         IN  /\ servers' = loaded
             /\ IF Len(loaded) > 0
                THEN Settle(c, Outcome([calls[c] EXCEPT !.pc = "loadId"], 0, FALSE))
                ELSE Settle(c, Outcome(Done(calls[c], "resolved", "empty"), 1, FALSE))
    /\ UNCHANGED <<webdavClient, currentServer, storedServers, storedCurrentId,
                   resVars, extVars>>

\* AsyncStorage.getItem(CURRENT_WEBDAV_SERVER_KEY) settles (a read error gives
\* null): first attempt on the entry with that id, if there is one, otherwise
\* the second attempt at once
SetupLoadId(c) ==
    /\ calls[c].pc = "loadId"
    /\ \E readOk \in BOOLEAN :
         LET currentId == IF readOk THEN storedCurrentId ELSE ""
             found == {i \in 1..Len(servers) : servers[i].id = currentId}
             rec == [calls[c] EXCEPT !.loadedId = currentId]
         IN  \E o \in (IF currentId # "" /\ found # {}
                       THEN BeginConnect(rec, servers[CHOOSE i \in found :
                                                \A j \in found : i <= j], 1, c)
                       ELSE SetupSecondAttempt(rec, c)) :
                Settle(c, o) /\ SettleSession(o)
    /\ UNCHANGED <<servers, storedServers, storedCurrentId, resVars, extVars>>

(* --------------------------- verify and form test ----------------------- *)

\* the 5 s timer of verifyWebDAVConnection has fired: the rejection of the race
\* is caught by the outer catch, which returns false
VerifyOnTimeoutRejects(rec) == Done(rec, "rejected", "timeout")
VerifyOnTimeout(rec) == Done(rec, "false", "timeout")

\* verifyWebDAVConnection(srv) up to its first await
VerifyWebDAVConnection(c) ==
    /\ CanStart(c)
    /\ \E srv \in ServerConfigs :
         LET rec == [IdleCall EXCEPT !.op = "verify"]
         IN  IF srv.url = ""
             THEN Continue(c, Done(rec, "false", "nourl"))
             ELSE \/ Continue(c, Done(rec, "false", "client"))
                  \/ Continue(c, [rec EXCEPT !.pc = "vprobe", !.client = Handle(c, 0)])
    /\ Publish(0, currentServer)
    /\ UNCHANGED <<webdavClient, currentServer, servers, storedServers,
                   storedCurrentId, isInitialized, resVars, extVars>>

\* the probe of verify settles before the timer: true, or false on an error
VerifyProbeSettles(c) ==
    /\ calls[c].pc = "vprobe"
    /\ \E ok \in BOOLEAN :
         Continue(c, IF ok THEN Done(calls[c], "true", "none")
                           ELSE Done(calls[c], "false", "probe"))
    /\ Publish(0, currentServer)
    /\ UNCHANGED <<webdavClient, currentServer, servers, storedServers,
                   storedCurrentId, isInitialized, resVars, extVars>>

\* the timer of verify fires first
VerifyTimesOut(c) ==
    /\ calls[c].pc = "vprobe"
    /\ Continue(c, VerifyOnTimeout(calls[c]))
    /\ Publish(0, currentServer)
    /\ UNCHANGED <<webdavClient, currentServer, servers, storedServers,
                   storedCurrentId, isInitialized, resVars, extVars>>

\* the test button of the edit form: a temporary client of its own, probed
\* without a timer; a blank url and a createClient error end it at once
HandleTestConnection(c) ==
    /\ CanStart(c)
    /\ \E srv \in ServerConfigs :
         LET rec == [IdleCall EXCEPT !.op = "formTest"]
         IN  IF srv.url = ""
             THEN Continue(c, Done(rec, "false", "nourl"))
             ELSE \/ Continue(c, Done(rec, "false", "client"))
                  \/ Continue(c, [rec EXCEPT !.pc = "fprobe", !.client = Handle(c, 0)])
    /\ Publish(0, currentServer)
    /\ UNCHANGED <<webdavClient, currentServer, servers, storedServers,
                   storedCurrentId, isInitialized, resVars, extVars>>

\* the probe of the form test settles
FormTestSettles(c) ==
    /\ calls[c].pc = "fprobe"
    /\ \E ok \in BOOLEAN :
         Continue(c, IF ok THEN Done(calls[c], "true", "none")
                           ELSE Done(calls[c], "false", "probe"))
    /\ Publish(0, currentServer)
    /\ UNCHANGED <<webdavClient, currentServer, servers, storedServers,
                   storedCurrentId, isInitialized, resVars, extVars>>

(* ------------------------------ status queries -------------------------- *)

\* getCurrentWebDAVServer()
GetCurrentWebDAVServer == currentServer

\* checkWebDAVStatus()
CheckWebDAVStatus ==
    [isConnected |-> webdavClient # 0, server |-> currentServer]

(* ------------------------------ track resolver -------------------------- *)

\* no file at a cache path
NoCacheFile == [exists |-> FALSE, src |-> "", complete |-> FALSE]

\* a resolution that has not started
IdleResolve ==
    [pc |-> "idle", file |-> NoFile, result |-> "none", isLocal |-> FALSE,
     localPath |-> "", cachedAtStart |-> FALSE, downloads |-> 0, fetches |-> 0,
     directFailed |-> FALSE, fetchable |-> FALSE, listedBy |-> 0, urlClient |-> 0]

\* the file browser has listed nothing: no call pending (client 0), no records
\* on the screen (listedBy is the handle of the session that listed them)
NoListing == [pc |-> "idle", client |-> 0, listedBy |-> 0, err |-> "none",
              abandoned |-> FALSE]

\* cacheFilePath = `${cacheDir}${file.basename}`
CacheFilePath(file) == "webdav_cache/" \o file.basename

\* fileUrl: the server url, a slash, and file.filename without its leading slash
\* (every filename of RemoteFiles starts with a slash, no url ends with one)
FileUrl(server, file) == server.url \o file.filename

\* (await FileSystem.getInfoAsync(cacheFilePath)).exists
CacheInfoNeverExists(file) == FALSE
CacheInfoExists(file) == cacheFiles[file.basename].exists

\* return { localPath: `file://${cacheFilePath}`, isLocal: true }
ReturnLocal(rec) ==
    [rec EXCEPT !.pc = "done", !.result = "resolved", !.isLocal = TRUE,
                !.localPath = "file://" \o CacheFilePath(rec.file)]

\* the catch of the direct download.  The second strategy calls getWebDAVClient(),
\* a name that the module neither imports nor defines: the call throws before
\* any content is fetched, and the third strategy returns the remote url.
\* fetchable records whether client.getFileContents would have succeeded
AfterDirectDownloadFailed(rec, fetchable) ==
    [rec EXCEPT !.pc = "done", !.result = "resolved", !.isLocal = FALSE,
                !.localPath = FileUrl(currentServer, rec.file),
                !.directFailed = TRUE, !.fetchable = fetchable]

ResolveCanStart(r) ==
    /\ resolves[r].pc = "idle"
    /\ IF r = 1 THEN TRUE ELSE resolves[r - 1].pc # "idle"

\* cacheWebDAVFile(file) up to the await of getInfoAsync (makeDirectoryAsync
\* before it changes nothing the resolver reads)
StartResolve(r) ==
    /\ ResolveCanStart(r)
    /\ \E file \in RemoteFiles :
         resolves' = [resolves EXCEPT ![r] =
            [IdleResolve EXCEPT !.pc = "check", !.file = file,
                                !.cachedAtStart = cacheFiles[file.basename].exists,
                                !.listedBy = listing.listedBy]]
    /\ UNCHANGED <<svcVars, cacheFiles, listing, extVars>>

\* getInfoAsync settles: a cache hit returns; otherwise the url is built from the
\* current server (none: the call rejects) and the direct download is started
CheckCache(r) ==
    /\ resolves[r].pc = "check"
    /\ resolves' = [resolves EXCEPT ![r] =
          IF CacheInfoExists(resolves[r].file)
          THEN ReturnLocal(resolves[r])
          ELSE IF currentServer.url = ""
               THEN [resolves[r] EXCEPT !.pc = "done", !.result = "rejected"]
               ELSE [resolves[r] EXCEPT !.pc = "download", !.downloads = @ + 1,
                                        !.urlClient = webdavClient]]
    /\ UNCHANGED <<svcVars, cacheFiles, listing, extVars>>

\* FileSystem.downloadAsync settles: it resolves with the response written to the
\* cache path whatever the HTTP status, or it rejects and writes nothing
DownloadSettles(r) ==
    /\ resolves[r].pc = "download"
    /\ \/ \E complete \in BOOLEAN :
            /\ cacheFiles' = [cacheFiles EXCEPT ![resolves[r].file.basename] =
                  [exists |-> TRUE, src |-> resolves[r].file.filename,
                   complete |-> complete]]
            /\ resolves' = [resolves EXCEPT ![r].pc = "verify"]
       \/ \E fetchable \in BOOLEAN :
            /\ resolves' = [resolves EXCEPT ![r] =
                  AfterDirectDownloadFailed(resolves[r], fetchable)]
            /\ UNCHANGED cacheFiles
    /\ UNCHANGED <<svcVars, listing, extVars>>

\* the getInfoAsync after the download settles
VerifyDownload(r) ==
    /\ resolves[r].pc = "verify"
    /\ resolves' = [resolves EXCEPT ![r] =
          IF CacheInfoExists(resolves[r].file)
          THEN ReturnLocal(resolves[r])
          ELSE AfterDirectDownloadFailed(resolves[r], FALSE)]
    /\ UNCHANGED <<svcVars, cacheFiles, listing, extVars>>

(* ------------------------------ file browser ---------------------------- *)

\* getDirectoryContents(path) up to its await: without a session it throws;
\* otherwise webdavClient.getDirectoryContents(path) is called on the client of
\* this moment and raced against the 20 s timer
GetDirectoryContents ==
    /\ listing.pc = "idle"
    /\ webdavClient # 0
    /\ listing' = [listing EXCEPT !.pc = "pending", !.client = webdavClient,
                                  !.err = "none"]
    /\ UNCHANGED <<svcVars, cacheFiles, resolves, extVars>>

\* the listing settles: the records of the client asked replace those on the
\* screen, or the call rejects with an error and the screen keeps its records
ListingSettles ==
    /\ listing.pc = "pending"
    /\ \E ok \in BOOLEAN :
         listing' = [listing EXCEPT
                        !.pc = "idle", !.client = 0,
                        !.listedBy = IF ok THEN listing.client ELSE listing.listedBy,
                        !.err = IF ok THEN "none" ELSE "error"]
    /\ UNCHANGED <<svcVars, cacheFiles, resolves, extVars>>

\* the timer of getDirectoryContents fires first: Promise.race rejects with the
\* timeout error.  Nothing is done to directoryPromise: the remote enumeration
\* it started goes on (abandoned: such an enumeration is still in flight)
ListingTimesOut ==
    /\ listing.pc = "pending"
    /\ listing' = [listing EXCEPT !.pc = "idle", !.client = 0, !.err = "timeout",
                                  !.abandoned = TRUE]
    /\ UNCHANGED <<svcVars, cacheFiles, resolves, extVars>>

\* the remote enumerations that timed-out listings left behind have ended; their
\* results go nowhere
AbandonedListingEnds ==
    /\ listing.abandoned
    /\ listing' = [listing EXCEPT !.abandoned = FALSE]
    /\ UNCHANGED <<svcVars, cacheFiles, resolves, extVars>>

(* ------------------- getDirectoryContents: filter and map --------------- *)

\* a name is a sequence of pieces: "a.mp3" is <<"a", ".", "mp3">>.  A media type
\* is its part before the slash and the rest; NoMime is a missing mime field
NoMime == [type |-> "", sub |-> ""]

\* what the remote may return for a directory: an mp3 and an upper-case FLAC
\* without media type, a text file, a directory, a MIDI file declared audio/midi
\* and a file that is called just mp3
RemoteEntries ==
    {[basename |-> <<"a", ".", "mp3">>, type |-> "file", mime |-> NoMime],
     [basename |-> <<"b", ".", "txt">>, type |-> "file",
      mime |-> [type |-> "text", sub |-> "plain"]],
     [basename |-> <<"sub">>, type |-> "directory", mime |-> NoMime],
     [basename |-> <<"c", ".", "mid">>, type |-> "file",
      mime |-> [type |-> "audio", sub |-> "midi"]],
     [basename |-> <<"D", ".", "FLAC">>, type |-> "file", mime |-> NoMime],
     [basename |-> <<"mp3">>, type |-> "file", mime |-> NoMime]}

\* the contents of a remote directory, in the order the remote returns them
RemoteContents ==
    UNION {[1..n -> RemoteEntries] : n \in 0..MaxEntries}

\* the path argument: the root or a directory below it
ListedPaths == {<<"/">>, <<"/", "music">>}

\* the i flag of the regular expressions: letters compare without case
ToLower(piece) ==
    CASE piece = "FLAC" -> "flac"
      [] piece = "MP3" -> "mp3"
      [] piece = "D" -> "d"
      [] OTHER -> piece

\* /\.(mp3|flac|wav|ogg|m4a|aac)$/i.test(item.basename)
HasAudioExtensionExactCase(basename) ==
    /\ Len(basename) >= 2
    /\ basename[Len(basename) - 1] = "."
    /\ basename[Len(basename)] \in {"mp3", "flac", "wav", "ogg", "m4a", "aac"}
HasAudioExtension(basename) ==
    /\ Len(basename) >= 2
    /\ basename[Len(basename) - 1] = "."
    /\ ToLower(basename[Len(basename)]) \in {"mp3", "flac", "wav", "ogg", "m4a", "aac"}

\* the callback of contents.filter
KeepItem(item, onlyMusic) ==
    IF onlyMusic
    THEN \/ item.type = "directory"
         \/ (item.mime # NoMime /\ item.mime.type = "audio")
         \/ HasAudioExtension(item.basename)
    ELSE TRUE

\* the callback of .map: the fields of the item and its path
ToWebDAVFile(item, path) ==
    [basename |-> item.basename, type |-> item.type, mime |-> item.mime,
     path |-> IF path = <<"/">> THEN <<"/">> \o item.basename
              ELSE path \o <<"/">> \o item.basename]

\* contents.filter(...).map(...)
RECURSIVE FilterAndMap(_, _, _)
FilterAndMap(contents, onlyMusic, path) ==
    IF contents = <<>>
    THEN <<>>
    ELSE (IF KeepItem(Head(contents), onlyMusic)
          THEN <<ToWebDAVFile(Head(contents), path)>>
          ELSE <<>>)
         \o FilterAndMap(Tail(contents), onlyMusic, path)

\* getDirectoryContents(path, {onlyMusic}) returns, the remote having answered
ReturnListing ==
    /\ input.fn = "listing"
    /\ ~output.done
    /\ output' = [done |-> TRUE,
                  value |-> FilterAndMap(input.contents, input.onlyMusic, input.path)]
    /\ UNCHANGED <<svcVars, resVars, input, uiVars>>

(* ------------------------ title and artist of a track ------------------- *)

\* the pieces of a file name: two words, the separator ' - ', a dot, an
\* extension and a blank
NamePieces == {"Artist Name", "Song Title", " - ", ".", "flac", " "}

FileNames == UNION {[1..n -> NamePieces] : n \in 1..MaxPieces}

\* str.lastIndexOf(piece), counted from 1; 0 when absent
LastIndexOf(str, piece) ==
    IF \E i \in 1..Len(str) : str[i] = piece
    THEN CHOOSE i \in 1..Len(str) :
            str[i] = piece /\ \A j \in (i + 1)..Len(str) : str[j] # piece
    ELSE 0

\* basename.replace(/\.[^/.]+$/, ''): the last dot and what follows it are
\* removed when something follows it
StripExtension(basename) ==
    LET dot == LastIndexOf(basename, ".")
    IN  IF dot > 0 /\ dot < Len(basename)
        THEN SubSeq(basename, 1, dot - 1)
        ELSE basename

\* title.split('.').slice(0, -1).join('.'): what precedes the last dot, and
\* the empty string when there is no dot
NameWithoutExt(title) ==
    LET dot == LastIndexOf(title, ".")
    IN  IF dot > 0 THEN SubSeq(title, 1, dot - 1) ELSE <<>>

\* str.split(' - ')
RECURSIVE Split(_)
Split(str) ==
    IF \E i \in 1..Len(str) : str[i] = " - "
    THEN LET i == CHOOSE k \in 1..Len(str) :
                     str[k] = " - " /\ \A j \in 1..(k - 1) : str[j] # " - "
         IN  <<SubSeq(str, 1, i - 1)>> \o Split(SubSeq(str, i + 1, Len(str)))
    ELSE <<str>>

\* parts.join(' - ')
RECURSIVE Join(_)
Join(parts) ==
    IF Len(parts) = 0 THEN <<>>
    ELSE IF Len(parts) = 1 THEN parts[1]
    ELSE parts[1] \o <<" - ">> \o Join(Tail(parts))

\* str.trimStart(): blanks go, and the blank that begins a separator
RECURSIVE TrimStart(_)
TrimStart(str) ==
    IF str = <<>> THEN <<>>
    ELSE IF Head(str) = " " THEN TrimStart(Tail(str))
    ELSE IF Head(str) = " - " THEN TrimStart(<<"-", " ">> \o Tail(str))
    ELSE str

\* a string read backwards
RECURSIVE Reverse(_)
Reverse(str) ==
    IF str = <<>> THEN <<>> ELSE Reverse(Tail(str)) \o <<Head(str)>>

\* str.trim(): the front is trimmed, then the end, read backwards
Trim(str) == Reverse(TrimStart(Reverse(TrimStart(str))))

\* the placeholder artists: 'WebDAV音乐' in the browser, '未知艺术家' in the service
BrowserArtist == <<"WebDAV music">>
UnknownArtist == <<"unknown artist">>

\* playWebDavTrack and addToPlaylist: fileTitle, parts, artist and title
BrowserTrackName(basename) ==
    LET fileTitle == StripExtension(basename)
        parts == Split(fileTitle)
    IN  IF Len(parts) >= 2
        THEN [artist |-> Trim(parts[1]), title |-> Trim(Join(Tail(parts)))]
        ELSE [artist |-> BrowserArtist, title |-> fileTitle]

\* webdavFileToMusicItem: title starts as the basename and is replaced only
\* when the name without extension splits in two parts or more
MusicItemName(basename) ==
    LET nameWithoutExt == NameWithoutExt(basename)
        parts == Split(nameWithoutExt)
    IN  IF Len(parts) >= 2
        THEN [artist |-> Trim(parts[1]), title |-> Trim(Join(Tail(parts)))]
        ELSE [artist |-> UnknownArtist, title |-> basename]

\* playWebDavTrack builds its musicItem once the file is resolved
PlayWebDavTrackItem ==
    /\ input.fn = "playWebDavTrack"
    /\ ~output.done
    /\ output' = [done |-> TRUE, value |-> BrowserTrackName(input.basename)]
    /\ UNCHANGED <<svcVars, resVars, input, uiVars>>

\* addToPlaylist builds its musicItem once the file is resolved
AddToPlaylistItem ==
    /\ input.fn = "addToPlaylist"
    /\ ~output.done
    /\ output' = [done |-> TRUE, value |-> BrowserTrackName(input.basename)]
    /\ UNCHANGED <<svcVars, resVars, input, uiVars>>

\* webdavFileToMusicItem(file) with a file that has a name, under a session
\* (it returns null without one)
WebdavFileToMusicItem ==
    /\ input.fn = "webdavFileToMusicItem"
    /\ ~output.done
    /\ currentServer # NullServer
    /\ output' = [done |-> TRUE, value |-> MusicItemName(input.basename)]
    /\ UNCHANGED <<svcVars, resVars, input, uiVars>>

(* --------------------------- file browser: loads ------------------------ *)

Loads == 1..MaxLoads

\* the directories the browser visits
BrowsedPaths == {"/", "/a"}

\* a loadFiles call that was not made.  timer is the state of the call's 15 s
\* timer, outcome how its getDirectoryContents settled
IdleLoad == [pc |-> "idle", path |-> "", timer |-> "none", outcome |-> "none"]

\* the state of the screen at mount: files is the path whose contents are shown
\* ("" for the empty list), ref is abortControllerRef.current as the number of
\* the load that created the controller (0 is null), aborted the controllers
\* that were aborted
IdleBrowser ==
    [files |-> "", isLoading |-> TRUE, error |-> "none", currentPath |-> "/",
     ref |-> 0, aborted |-> {}, loads |-> [l \in Loads |-> IdleLoad]]

\* cleanup(): the current controller is aborted and the ref is nulled
Cleanup(b) ==
    IF b.ref # 0
    THEN [b EXCEPT !.aborted = b.aborted \cup {b.ref}, !.ref = 0]
    ELSE b

\* abortControllerRef.current?.signal.aborted
CurrentAborted(b) == b.ref # 0 /\ b.ref \in b.aborted

\* handleFilePress, handleBack, handleRefresh, handleReset or the mount effect:
\* setCurrentPath(path), then loadFiles(path) up to its await
LoadFiles(l) ==
    /\ browser.loads[l].pc = "idle"
    /\ \A k \in 1..(l - 1) : browser.loads[k].pc # "idle"
    /\ \E path \in BrowsedPaths :
         LET cleaned == Cleanup([browser EXCEPT !.currentPath = path])
         IN  IF currentServer = NullServer /\ path # "/"
             THEN browser' = [cleaned EXCEPT
                                 !.error = "noserver", !.isLoading = FALSE,
                                 !.loads[l] = [IdleLoad EXCEPT !.pc = "done",
                                                               !.path = path]]
             ELSE browser' = [cleaned EXCEPT
                                 !.isLoading = TRUE, !.error = "none", !.ref = l,
                                 !.loads[l] = [pc |-> "awaiting", path |-> path,
                                               timer |-> "armed",
                                               outcome |-> "none"]]
    /\ UNCHANGED <<svcVars, resVars, input, output, player>>

\* getDirectoryContents(path) resolves: the timer is cleared, and the files are
\* shown unless the controller now in the ref is aborted
LoadResolves(l) ==
    /\ browser.loads[l].pc = "awaiting"
    /\ LET cleared == [browser EXCEPT
                          !.loads[l].pc = "done", !.loads[l].outcome = "resolved",
                          !.loads[l].timer =
                              IF @ = "armed" THEN "cleared" ELSE @]
       IN  browser' = IF CurrentAborted(browser)
                      THEN cleared
                      ELSE [cleared EXCEPT !.files = browser.loads[l].path,
                                           !.isLoading = FALSE]
    /\ UNCHANGED <<svcVars, resVars, input, output, player>>

\* getDirectoryContents(path) rejects: the error is shown unless the controller
\* now in the ref is aborted; the timer is left armed
LoadRejects(l) ==
    /\ browser.loads[l].pc = "awaiting"
    /\ LET ended == [browser EXCEPT
                        !.loads[l].pc = "done", !.loads[l].outcome = "rejected"]
       IN  browser' = IF CurrentAborted(browser)
                      THEN ended
                      ELSE [ended EXCEPT !.error = "failed", !.isLoading = FALSE]
    /\ UNCHANGED <<svcVars, resVars, input, output, player>>

\* the 15 s timer of load l fires, after the timers armed before it: whatever
\* controller is in the ref is aborted and the timeout error is shown
LoadTimerFires(l) ==
    /\ browser.loads[l].timer = "armed"
    /\ \A k \in 1..(l - 1) : browser.loads[k].timer # "armed"
    /\ LET fired == [browser EXCEPT !.loads[l].timer = "fired"]
       IN  browser' = IF browser.ref # 0
                      THEN [fired EXCEPT
                               !.aborted = browser.aborted \cup {browser.ref},
                               !.error = "timeout", !.isLoading = FALSE]
                      ELSE fired
    /\ UNCHANGED <<svcVars, resVars, input, output, player>>

(* ---------------------------- useSetupTrackPlayer ----------------------- *)

Setups == 1..MaxSetups

\* a setupPlayer call that was not made.  afterReady records that the call made
\* its TrackPlayer.setupPlayer when an earlier one had succeeded
IdleSetup == [pc |-> "idle", result |-> "none", afterReady |-> FALSE]

\* the module at load: both flags false, the native player not set up (ready),
\* no track played through the second strategy of playWebDavTrack (fallbacks)
IdlePlayer ==
    [isPlayerInitializing |-> FALSE, isPlayerInitialized |-> FALSE,
     ready |-> FALSE, fallbacks |-> 0, setups |-> [k \in Setups |-> IdleSetup]]

\* the awaits of setupPlayer after TrackPlayer.setupPlayer, in order
AfterAwait(pc) ==
    CASE pc = "setupPlayer" -> "updateOptions"
      [] pc = "updateOptions" -> "setVolume"
      [] pc = "setVolume" -> "setRepeatMode"
      [] pc = "setRepeatMode" -> "done"

\* the catch block: the in-progress flag is cleared and the error rethrown
SetupFailed(p, k) ==
    [p EXCEPT !.isPlayerInitializing = FALSE,
              !.setups[k] = [@ EXCEPT !.pc = "done", !.result = "rejected"]]

\* setupPlayer() up to its first await, called by the effect of a mounted
\* useSetupTrackPlayer: it returns at once when a flag is set
SetupPlayer(k) ==
    /\ player.setups[k].pc = "idle"
    /\ \A j \in 1..(k - 1) : player.setups[j].pc # "idle"
    /\ player' =
          IF player.isPlayerInitialized \/ player.isPlayerInitializing
          THEN [player EXCEPT !.setups[k] =
                   [IdleSetup EXCEPT !.pc = "done", !.result = "resolved"]]
          ELSE [player EXCEPT !.isPlayerInitializing = TRUE,
                              !.setups[k] = [IdleSetup EXCEPT
                                               !.pc = "setupPlayer",
                                               !.afterReady = player.ready]]
    /\ UNCHANGED <<svcVars, resVars, input, output, browser>>

\* TrackPlayer.setupPlayer settles: it rejects when the player is set up
\* already, and may reject otherwise
NativeSetupSettles(k) ==
    /\ player.setups[k].pc = "setupPlayer"
    /\ \E ok \in (IF player.ready THEN {FALSE} ELSE BOOLEAN) :
         player' = IF ok
                   THEN [player EXCEPT !.ready = TRUE,
                                       !.setups[k].pc = AfterAwait(@)]
                   ELSE SetupFailed(player, k)
    /\ UNCHANGED <<svcVars, resVars, input, output, browser>>

\* updateOptions, setVolume or setRepeatMode settles; after the last one the
\* flags are set and setupPlayer resolves
ConfigureSettles(k) ==
    /\ player.setups[k].pc \in {"updateOptions", "setVolume", "setRepeatMode"}
    /\ \E ok \in BOOLEAN :
         player' =
            IF ~ok THEN SetupFailed(player, k)
            ELSE IF AfterAwait(player.setups[k].pc) = "done"
            THEN [player EXCEPT !.isPlayerInitialized = TRUE,
                                !.isPlayerInitializing = FALSE,
                                !.setups[k] = [@ EXCEPT !.pc = "done",
                                                        !.result = "resolved"]]
            ELSE [player EXCEPT !.setups[k].pc = AfterAwait(@)]
    /\ UNCHANGED <<svcVars, resVars, input, output, browser>>

\* playWebDavTrack's first strategy: require('@/hooks/useSetupTrackPlayer')
\* .setupPlayer is undefined, the module exports useSetupTrackPlayer only, so
\* calling it throws; the catch goes to the second strategy and no flag changes
PlayWebDavTrackSetup ==
    /\ player.fallbacks < MaxSetups
    /\ player' = [player EXCEPT !.fallbacks = @ + 1]
    /\ UNCHANGED <<svcVars, resVars, input, output, browser>>

(* ----------------------------- specification ---------------------------- *)

\* no pure function is under study
NoInput == [fn |-> "none"]
NoOutput == [done |-> FALSE, value |-> <<>>]

\* the parts of the application outside the service and the resolver are idle
\* the file browser screen is mounted and has loaded nothing yet
InitUi == browser = IdleBrowser /\ player = IdlePlayer

InitExt == input = NoInput /\ output = NoOutput /\ InitUi

\* the module has just been loaded; AsyncStorage holds what earlier runs left
InitSystem ==
    /\ webdavClient = 0
    /\ currentServer = NullServer
    /\ servers = <<>>
    /\ storedServers \in StoredServerValues
    /\ storedCurrentId \in StoredIdValues
    /\ published = 0
    /\ subscribers = <<"hook">>
    /\ round = NoRound
    /\ seenServer = NullServer
    /\ isInitialized = FALSE
    /\ calls = [c \in Calls |-> IdleCall]
    /\ lastCall = IdleCall
    /\ cacheFiles = [b \in Basenames |-> NoCacheFile]
    /\ resolves = [r \in Resolves |-> IdleResolve]
    /\ listing = NoListing

Init == InitSystem /\ InitExt

\* the steps of a connectToServer call that is awaiting its probe or the write
\* of the last-used id
ConnectionSteps(c) ==
    \/ ProbeSucceeds(c)
    \/ ProbeFails(c)
    \/ ProbeTimesOut(c)
    \/ SaveIdSettles(c)

SetupSteps(c) ==
    \/ StartSetup(c)
    \/ SetupLoadServers(c)
    \/ SetupLoadId(c)

\* the operations that write the session
Next ==
    \E c \in Calls :
        \/ ConnectToServer(c)
        \/ HandleTestServer(c)
        \/ SetDefaultWebDAVServer(c)
        \/ ConnectionSteps(c)
        \/ SetupSteps(c)

Spec == Init /\ [][Next]_vars

\* connectToServer alone
NextConnect ==
    \E c \in Calls : ConnectToServer(c) \/ ConnectionSteps(c)

SpecConnect == Init /\ [][NextConnect]_vars

\* the JavaScript timers fire: a pending probe does not outlast its deadline
FairConnect == SpecConnect /\ \A c \in Calls : WF_vars(ProbeTimesOut(c))

\* verifyWebDAVConnection next to connectToServer
NextVerify ==
    \E c \in Calls :
        \/ ConnectToServer(c)
        \/ ConnectionSteps(c)
        \/ VerifyWebDAVConnection(c)
        \/ VerifyProbeSettles(c)
        \/ VerifyTimesOut(c)

SpecVerify == Init /\ [][NextVerify]_vars

\* the server-management screen after startup: its two test buttons
NextTest ==
    \E c \in Calls :
        \/ SetupSteps(c)
        \/ ConnectionSteps(c)
        \/ HandleTestServer(c)
        \/ HandleTestConnection(c)
        \/ FormTestSettles(c)

SpecTest == Init /\ [][NextTest]_vars

\* the state after connectToServer(S1) has succeeded as the first call
ConnectedSystem ==
    /\ webdavClient = Handle(1, 0)
    /\ currentServer = [id |-> S1.id, url |-> S1.url, client |-> Handle(1, 0)]
    /\ servers = <<>>
    /\ storedServers = [kind |-> "absent", list |-> <<>>]
    /\ storedCurrentId = S1.id
    /\ published = 1
    /\ subscribers = <<"hook">>
    /\ round = [invoked |-> <<"hook">>, thrown |-> FALSE]
    /\ seenServer = currentServer
    /\ isInitialized = FALSE
    /\ calls = [c \in Calls |-> IF c = 1 THEN SettledCall ELSE IdleCall]
    /\ lastCall = [IdleCall EXCEPT !.op = "connect", !.pc = "done",
                                   !.client = Handle(1, 0), !.attempts = <<S1.id>>,
                                   !.result = "resolved"]
    /\ cacheFiles = [b \in Basenames |-> NoCacheFile]
    /\ resolves = [r \in Resolves |-> IdleResolve]
    /\ listing = NoListing

InitConnected == ConnectedSystem /\ InitExt

\* the resolver, with no session or with the session of S1
InitResolve ==
    \/ Init /\ storedServers.kind = "absent" /\ storedCurrentId = ""
    \/ InitConnected

\* the steps of the cacheWebDAVFile call of slot r
ResolveSteps(r) ==
    \/ StartResolve(r)
    \/ CheckCache(r)
    \/ DownloadSettles(r)
    \/ VerifyDownload(r)

NextResolve == \E r \in Resolves : ResolveSteps(r)

SpecResolve == InitResolve /\ [][NextResolve]_vars

\* the notification bus alone
NextBus ==
    \/ SubscribeToWebDAVStatus
    \/ Unsubscribe
    \/ NotifyRound

\* nothing is stored; the hook of the root screen has subscribed
InitBus == Init /\ storedServers.kind = "absent" /\ storedCurrentId = ""

SpecBus == InitBus /\ [][NextBus]_vars

\* the handle of the client that setupWebDAV created when the application started
StartupHandle == Handle(MaxCalls + 1, 0)

\* the server-management screen is open after startup: the registry <<S1, S2>>
\* is loaded, and startup found no server to connect to or connected to one
InitRegistry ==
    /\ servers = <<S1, S2>>
    /\ storedServers = [kind |-> "list", list |-> <<S1, S2>>]
    /\ \E cur \in {NullConfig, S1, S2} :
         /\ webdavClient = IF cur = NullConfig THEN 0 ELSE StartupHandle
         /\ currentServer = IF cur = NullConfig THEN NullServer
                             ELSE [id |-> cur.id, url |-> cur.url,
                                   client |-> StartupHandle]
         /\ storedCurrentId = cur.id
         /\ seenServer = currentServer
    /\ published = 2
    /\ subscribers = <<"hook">>
    /\ round = [invoked |-> <<"hook">>, thrown |-> FALSE]
    /\ isInitialized = TRUE
    /\ calls = [c \in Calls |-> IdleCall]
    /\ lastCall = IdleCall
    /\ cacheFiles = [b \in Basenames |-> NoCacheFile]
    /\ resolves = [r \in Resolves |-> IdleResolve]
    /\ listing = NoListing
    /\ InitExt

RegistrySteps(c) ==
    \/ AddWebDAVServer(c)
    \/ UpdateWebDAVServer(c)
    \/ DeleteWebDAVServer(c)
    \/ RemoveIdSettles(c)
    \/ SaveServersSettles(c)

\* the registry mutations, setDefault and the connections they make
NextRegistry ==
    \E c \in Calls :
        \/ RegistrySteps(c)
        \/ SetDefaultWebDAVServer(c)
        \/ ConnectionSteps(c)

SpecRegistry == InitRegistry /\ [][NextRegistry]_vars

\* the AsyncStorage write that call c awaited, if any, has succeeded
WriteSucceeds(c) ==
    /\ calls[c].pc = "saveId" => storedCurrentId' = calls[c].server.id
    /\ calls[c].pc = "removeId" => storedCurrentId' = ""
    /\ calls[c].pc = "save" =>
          storedServers' = [kind |-> "list", list |-> calls[c].snapshot]

\* the registry and the connections over a storage whose writes all succeed
NextPersist ==
    \E c \in Calls :
        \/ RegistrySteps(c) /\ WriteSucceeds(c)
        \/ SetDefaultWebDAVServer(c)
        \/ ConnectionSteps(c) /\ WriteSucceeds(c)

SpecPersist == InitRegistry /\ [][NextPersist]_vars

\* the calls to the local file system settle; FileSystem.downloadAsync is given
\* no timeout and no timer is raced against it, so nothing makes it settle
FairResolve ==
    SpecResolve /\ \A r \in Resolves :
                      WF_vars(CheckCache(r)) /\ WF_vars(VerifyDownload(r))

\* the file browser next to connectToServer: the session may be replaced between
\* the listing of a directory and the resolution of one of its records (one
\* track is resolved)
InitBrowse == Init /\ storedServers.kind = "absent" /\ storedCurrentId = ""

NextBrowse ==
    \/ \E c \in Calls : ConnectToServer(c) \/ ConnectionSteps(c)
    \/ GetDirectoryContents
    \/ ListingSettles
    \/ ResolveSteps(1)

SpecBrowse == InitBrowse /\ [][NextBrowse]_vars

\* the filter of getDirectoryContents on every content of a remote directory
InitFilter ==
    /\ ConnectedSystem
    /\ input \in [fn : {"listing"}, contents : RemoteContents,
                   onlyMusic : BOOLEAN, path : ListedPaths]
    /\ output = NoOutput
    /\ InitUi

SpecFilter == InitFilter /\ [][ReturnListing]_vars

\* the three builders of a track on every file name
InitTrack ==
    /\ ConnectedSystem
    /\ input \in [fn : {"playWebDavTrack", "addToPlaylist", "webdavFileToMusicItem"},
                   basename : FileNames]
    /\ output = NoOutput
    /\ InitUi

NextTrack ==
    \/ PlayWebDavTrackItem
    \/ AddToPlaylistItem
    \/ WebdavFileToMusicItem

SpecTrack == InitTrack /\ [][NextTrack]_vars

\* the file browser under the session of S1
NextLoad ==
    \E l \in Loads :
        \/ LoadFiles(l)
        \/ LoadResolves(l)
        \/ LoadRejects(l)
        \/ LoadTimerFires(l)

SpecLoad == InitConnected /\ [][NextLoad]_vars

\* the setupPlayer calls of the mounted hooks and the tracks played from the
\* file browser
NextPlayer ==
    \/ \E k \in Setups :
          \/ SetupPlayer(k)
          \/ NativeSetupSettles(k)
          \/ ConfigureSettles(k)
    \/ PlayWebDavTrackSetup

SpecPlayer == InitConnected /\ [][NextPlayer]_vars

\* getDirectoryContents next to connectToServer
NextListing ==
    \/ \E c \in Calls : ConnectToServer(c) \/ ConnectionSteps(c)
    \/ GetDirectoryContents
    \/ ListingSettles
    \/ ListingTimesOut
    \/ AbandonedListingEnds

SpecListing == InitBrowse /\ [][NextListing]_vars

(* -------------------------------- claims -------------------------------- *)

\* a connectToServer call (direct, or made by a caller) is in flight
ConnectInFlight(c) == calls[c].pc \in {"probe", "saveId"}

\* C1: in every reachable state the client handle and the current server are
\* both absent or both present, the current server's client is that handle, and
\* checkWebDAVStatus().isConnected is true exactly when getCurrentWebDAVServer()
\* is not null
C1_SessionPair ==
    /\ (webdavClient = 0) <=> (currentServer = NullServer)
    /\ webdavClient # 0 => currentServer.client = webdavClient
    /\ CheckWebDAVStatus.isConnected <=> (GetCurrentWebDAVServer # NullServer)

\* a session is active while another connect is awaiting its probe
C1_Witness ==
    /\ webdavClient # 0
    /\ \E c \in Calls : calls[c].pc = "probe" /\ calls[c].client # webdavClient

\* C2: a connect call that another connect superseded while its probe was in
\* flight never ends up as the active session once every call has settled
C2_SupersededDiscarded ==
    (/\ lastCall.op = "connect"
     /\ lastCall.superseded
     /\ \A c \in Calls : ~ConnectInFlight(c))
    => currentServer.client # lastCall.client

\* call c settles in this step
Settles(c) == calls[c].pc # "done" /\ calls'[c].pc = "done"

\* C3: a connect call that rejects leaves the session as it was
C3_FailedConnectKeepsSession ==
    [][\A c \in Calls :
          (Settles(c) /\ lastCall'.op = "connect" /\ lastCall'.result = "rejected")
          => UNCHANGED <<webdavClient, currentServer>>]_vars

\* C4: a probe that is still pending when the deadline expires makes the call
\* reject with the timeout error and leaves no client and no current server, and
\* no connect call waits for its probe forever
C4_ProbeDeadline ==
    /\ [][\A c \in Calls :
            (calls[c].pc = "probe" /\ Settles(c) /\ lastCall'.err = "timeout")
            => /\ lastCall'.result = "rejected"
               /\ webdavClient' = 0
               /\ currentServer' = NullServer]_vars
    /\ \A c \in Calls : (calls[c].pc = "probe") ~> (calls[c].pc # "probe")

\* a single connect call, started while disconnected, has timed out
C4_Witness ==
    /\ lastCall.op = "connect" /\ lastCall.err = "timeout"
    /\ lastCall.result = "rejected"
    /\ calls[1] = SettledCall
    /\ \A c \in Calls \ {1} : calls[c].pc = "idle"
    /\ webdavClient = 0 /\ currentServer = NullServer

\* the setup calls that have read the last-used id: those in flight and the one
\* that settled last
SetupRecords ==
    {calls[c] : c \in {d \in Calls : calls[d].op = "setup"
                                     /\ calls[d].pc \in {"probe", "saveId"}}}
    \cup (IF lastCall.op = "setup" THEN {lastCall} ELSE {})

\* the registry as persisted when the process started
PersistedRegistry == ParseServers(storedServers)

\* the id of the registry entry that matches the last-used id a setup call has
\* read, "" when there is none
MatchedId(rec) ==
    IF rec.loadedId # ""
       /\ \E i \in 1..Len(PersistedRegistry) : PersistedRegistry[i].id = rec.loadedId
    THEN rec.loadedId
    ELSE ""

\* the attempts a setup call may have made so far (none at all when another
\* setup call has emptied the registry in the meantime)
AllowedAttempts(rec) ==
    LET first == IF Len(PersistedRegistry) > 0
                 THEN {<<PersistedRegistry[1].id>>} ELSE {}
    IN  IF MatchedId(rec) # ""
        THEN {<<>>, <<MatchedId(rec)>>}
             \cup {<<MatchedId(rec)>> \o f : f \in first}
        ELSE {<<>>} \cup first

\* the call of slot 1 has settled and no other call was made
OnlyCallSettled ==
    /\ calls[1] = SettledCall
    /\ \A c \in Calls \ {1} : calls[c].pc = "idle"

C6_SetupNeverRejects ==
    /\ lastCall.op = "setup" => lastCall.result = "resolved"
    /\ (lastCall.op = "setup" /\ lastCall.caller = "init") => isInitialized
    /\ (OnlyCallSettled /\ lastCall.op = "setup" /\ lastCall.err # "none") =>
          /\ webdavClient = 0
          /\ currentServer = NullServer
          /\ published >= 1

\* both attempts of the startup setup failed
C6_Witness ==
    /\ OnlyCallSettled /\ lastCall.op = "setup" /\ lastCall.caller = "init"
    /\ Len(lastCall.attempts) = 2
    /\ lastCall.err \in {"probe", "timeout", "nourl", "client"}
    /\ lastCall.result = "resolved"
    /\ isInitialized
    /\ webdavClient = 0

\* call c is a verify call that takes a step
VerifySteps(c) ==
    \/ calls[c].op = "idle" /\ calls'[c].op = "verify"
    \/ calls[c].op = "idle" /\ Settles(c) /\ lastCall'.op = "verify"
    \/ calls[c].op = "verify" /\ calls'[c].pc # calls[c].pc

TestSteps(c) ==
    \/ calls[c].op = "idle" /\ calls'[c].op \in {"testServer", "formTest"}
    \/ calls[c].op = "idle" /\ Settles(c)
         /\ lastCall'.op \in {"testServer", "formTest"}
    \/ calls[c].op \in {"testServer", "formTest"} /\ calls'[c].pc # calls[c].pc

\* C8: no step of a test flow changes the current server or the persisted
\* last-used id
C8_TestKeepsSession ==
    [][\A c \in Calls : TestSteps(c) =>
          UNCHANGED <<currentServer, storedCurrentId>>]_vars

\* C9: when the direct download has failed and the content can be fetched through
\* the session's client handle, the resolution returns the cache file
C9_ClientFetchUsed ==
    \A r \in Resolves :
        (/\ resolves[r].pc = "done"
         /\ resolves[r].directFailed
         /\ resolves[r].fetchable
         /\ webdavClient # 0)
        => resolves[r].isLocal

\* C10: a resolution started when the cache file of its record exists returns
\* that cache file with isLocalCache = true and issues no transfer
C10_SecondIsCacheHit ==
    \A r \in Resolves :
        (resolves[r].pc = "done" /\ resolves[r].cachedAtStart) =>
            /\ resolves[r].result = "resolved"
            /\ resolves[r].isLocal
            /\ resolves[r].localPath = "file://" \o CacheFilePath(resolves[r].file)
            /\ resolves[r].downloads = 0
            /\ resolves[r].fetches = 0

\* the first resolution downloaded the file, the second one of the same record
\* has returned
C10_Witness ==
    /\ resolves[1].pc = "done" /\ resolves[1].isLocal /\ resolves[1].downloads = 1
    /\ resolves[2].pc = "done" /\ resolves[2].cachedAtStart
    /\ resolves[2].file = resolves[1].file
    /\ resolves[2].localPath = resolves[1].localPath

\* C11: a record listed under one session is never resolved against another one:
\* a resolution that built its url from a session other than the one that listed
\* the record has failed
C11_StaleSessionFails ==
    \A r \in Resolves :
        (/\ resolves[r].pc = "done"
         /\ resolves[r].listedBy # 0
         /\ resolves[r].urlClient # 0
         /\ resolves[r].urlClient # resolves[r].listedBy)
        => resolves[r].result = "rejected"

\* C12: a track resolution always terminates: a resolution whose transfer is
\* pending returns a descriptor or fails
C12_ResolveTerminates ==
    \A r \in Resolves : (resolves[r].pc = "download") ~> (resolves[r].pc = "done")

\* call c starts as an operation `op` in this step
Starts(c, op) == calls[c].op = "idle" /\ calls'[c].op = op

\* call c, an operation `op` that was in flight, settles in this step
Ends(c, op) == calls[c].op = op /\ Settles(c)

\* C13: addWebDAVServer(config) appends one entry that has the fields of config
\* and an id that no other entry of the list has; the entries that were there
\* stay as they are and in their order, the session is not touched, and the
\* call resolves with that id
C13_AddAppendsUnique ==
    [][\A c \in Calls :
          /\ Starts(c, "add") =>
                /\ Len(servers') = Len(servers) + 1
                /\ SubSeq(servers', 1, Len(servers)) = servers
                /\ servers'[Len(servers')].url = calls'[c].server.url
                /\ servers'[Len(servers')].id = calls'[c].id
                /\ \A i \in 1..Len(servers) : servers[i].id # calls'[c].id
                /\ UNCHANGED <<webdavClient, currentServer>>
          /\ Ends(c, "add") =>
                /\ lastCall'.result = "resolved" /\ lastCall'.id = calls[c].id
                /\ UNCHANGED <<servers, webdavClient, currentServer>>]_vars

\* no two entries of the list have the same id
DistinctIds(list) ==
    \A i, j \in 1..Len(list) : list[i].id = list[j].id => i = j

\* C14: a deleteWebDAVServer(id) that completes leaves no entry with that id in
\* the registry; for the active server the session is reset before the entry is
\* removed and the persisted last-used id is removed; deleting another server
\* does not change the session
C14_DeleteRemoves ==
    [][\A c \in Calls :
          /\ (Ends(c, "delete") /\ lastCall'.result = "resolved"
                /\ DistinctIds(servers)) =>
                \A i \in 1..Len(servers') : servers'[i].id # calls[c].id
          /\ (Starts(c, "delete") /\ calls'[c].pc = "removeId") =>
                /\ webdavClient' = 0 /\ currentServer' = NullServer
                /\ servers' = servers
          /\ (calls[c].pc = "removeId" /\ calls'[c].pc = "save") =>
                storedCurrentId' = ""
          /\ (Starts(c, "delete") /\ calls'[c].pc = "save") =>
                UNCHANGED <<webdavClient, currentServer>>
          /\ (calls[c].op = "delete" /\ calls'[c] # calls[c]) =>
                UNCHANGED <<webdavClient, currentServer>>]_vars

\* C15: an updateWebDAVServer(id, partial) on an id that stays listed resolves,
\* also when its reconnect fails and when another registry mutation (of another
\* server) is interleaved; it
\* changes no entry's id; a reconnect is made to the server `id` and to no other;
\* when the reconnect succeeded and no other connect was started meanwhile the
\* session is that of `id`, when it failed the state is Disconnected
C15_UpdateReconnects ==
    [][\A c \in Calls :
          /\ Starts(c, "update") =>
                /\ Len(servers') = Len(servers)
                /\ \A i \in 1..Len(servers) : servers'[i].id = servers[i].id
                /\ UNCHANGED <<webdavClient, currentServer>>
          /\ (Ends(c, "update") /\ FindIndex(calls[c].id) # 0) =>
                /\ lastCall'.result = "resolved"
                /\ lastCall'.attempts \in {<<>>, <<calls[c].id>>}
                /\ (lastCall'.attempts # <<>> /\ lastCall'.err = "none"
                      /\ ~lastCall'.superseded) =>
                      currentServer'.id = calls[c].id
                /\ (lastCall'.attempts # <<>> /\ lastCall'.err # "none") =>
                      webdavClient' = 0 /\ currentServer' = NullServer]_vars

\* the operation and the id argument of the call that slot c starts in this step
StartedOp(c) == IF calls'[c].pc = "done" THEN lastCall'.op ELSE calls'[c].op
StartedId(c) == IF calls'[c].pc = "done" THEN lastCall'.id ELSE calls'[c].id

\* C16: update and delete called with an id that no entry has reject with the
\* not-found error and setDefault with such an id returns false, at once; the
\* registry, the session and both persisted entries stay as they are, no
\* connection is attempted and nothing is published
C16_UnknownIdRejected ==
    [][\A c \in Calls :
          (/\ calls[c].op = "idle" /\ calls'[c].op # "idle"
           /\ StartedOp(c) \in {"update", "delete", "setDefault"}
           /\ \A i \in 1..Len(servers) : servers[i].id # StartedId(c))
          => /\ Settles(c)
             /\ lastCall'.err = "notfound"
             /\ lastCall'.result =
                   (IF lastCall'.op = "setDefault" THEN "false" ELSE "rejected")
             /\ lastCall'.attempts = <<>>
             /\ UNCHANGED <<servers, webdavClient, currentServer, storedServers,
                            storedCurrentId>>
             /\ published' = 0]_vars

\* a delete of an unknown id has been rejected while a session was active
C16_Witness ==
    /\ lastCall.op = "delete" /\ lastCall.id = "s9"
    /\ lastCall.result = "rejected" /\ lastCall.err = "notfound"
    /\ webdavClient # 0
    /\ servers # <<>>

\* C17: a registry mutation publishes only after its write of the server list
\* has succeeded: no step before the write settles publishes, and the step in
\* which the write fails (the storage does not hold the list written) publishes
\* nothing
C17_PublishAfterPersist ==
    [][\A c \in Calls :
          /\ (calls[c].op = "idle" /\ calls'[c].op \in {"add", "update", "delete"}) =>
                published' = 0
          /\ (calls[c].pc = "removeId" /\ calls'[c].pc = "save") => published' = 0
          /\ (calls[c].pc = "save" /\ calls'[c].pc # "save"
                /\ storedServers' # [kind |-> "list", list |-> calls[c].snapshot]) =>
                published' = 0]_vars

\* C18: a deleteWebDAVServer(id) on the active server whose removal of the
\* persisted last-used id fails rejects with the in-memory state as it was before
\* the call: the session of `id` is active and the entry is listed
C18_FailedDeleteReverts ==
    [][\A c \in Calls :
          (Ends(c, "delete") /\ lastCall'.err = "storage") =>
             /\ lastCall'.result = "rejected"
             /\ \E i \in 1..Len(servers') : servers'[i].id = calls[c].id
             /\ webdavClient' # 0
             /\ currentServer'.id = calls[c].id]_vars

\* no service call is in flight
Quiescent == \A c \in Calls : calls[c].pc \in {"idle", "done"}

\* C19: every change of the session is published before the operation that made
\* it settles: whenever no operation is in flight, a useCurrentWebDAVServer hook
\* holds the current server
C19_HookHoldsCurrent == Quiescent => seenServer = currentServer

\* C20: a publish calls every callback that is subscribed when it starts, once
\* each and in subscription order, whatever the callbacks do: one that throws
\* does not stop the round and its error does not leave notifySubscribers, one
\* that subscribes or unsubscribes does not change who is called in this round
C20_RoundCallsSnapshot ==
    [][published' = 1 =>
          /\ round'.invoked = subscribers
          /\ ~round'.thrown]_vars

\* a round in which a callback threw, the next one unsubscribed itself, and the
\* hook after them was still called
C20_Witness ==
    /\ published = 1
    /\ round.invoked = <<"throws", "leaver", "hook">>
    /\ subscribers = <<"throws", "hook">>
    /\ ~round.thrown

\* C21: a listing that timed out has aborted its remote enumeration: after the
\* timeout no remote call that the listing started is in flight
C21_TimeoutAbortsListing ==
    (listing.pc = "idle" /\ listing.err = "timeout") => ~listing.abandoned

\* the basenames of a list of entries or records
BasenamesOf(list) == [i \in 1..Len(list) |-> list[i].basename]

\* the media types of the allow-list formats (mp3, flac, wav, ogg, m4a, aac)
AllowListMedia == {"mpeg", "flac", "wav", "ogg", "mp4", "aac"}

\* an entry is playable as the claim has it: a directory, a declared media type
\* of the allow-list, or an extension of the allow-list
ClaimedPlayable(e) ==
    \/ e.type = "directory"
    \/ (e.mime.type = "audio" /\ e.mime.sub \in AllowListMedia)
    \/ (Len(e.basename) >= 2 /\ e.basename[Len(e.basename) - 1] = "."
         /\ e.basename[Len(e.basename)] \in {"mp3", "MP3", "flac", "FLAC"})

\* an entry is playable as the code has it: a directory, any media type audio/...,
\* or an extension of the allow-list in any case
AudioPlayable(e) ==
    \/ e.type = "directory"
    \/ e.mime.type = "audio"
    \/ (Len(e.basename) >= 2 /\ e.basename[Len(e.basename) - 1] = "."
         /\ e.basename[Len(e.basename)] \in {"mp3", "MP3", "flac", "FLAC"})

\* a listing has returned
Listed == input.fn = "listing" /\ output.done

\* C22 as stated: with the option a listing returns, in the remote's order,
\* exactly the directories and the entries whose media type or extension is in
\* the allow-list; without it every entry
C22_OnlyAllowListKept ==
    Listed =>
        BasenamesOf(output.value) =
            BasenamesOf(IF input.onlyMusic
                        THEN SelectSeq(input.contents, ClaimedPlayable)
                        ELSE input.contents)

\* C22 amended: with the option a listing returns, in the remote's order,
\* exactly the directories, the entries declared with any audio/ media type and
\* the entries whose extension is in the allow-list; [a.mp3, b.txt, sub/] gives
\* [a.mp3, sub]; without the option every entry is returned, one record each
C22_AudioKept ==
    Listed =>
        /\ BasenamesOf(output.value) =
              BasenamesOf(IF input.onlyMusic
                          THEN SelectSeq(input.contents, AudioPlayable)
                          ELSE input.contents)
        /\ (input.onlyMusic
              /\ BasenamesOf(input.contents)
                    = <<(<<"a", ".", "mp3">>), (<<"b", ".", "txt">>), (<<"sub">>)>>)
              => BasenamesOf(output.value) = <<(<<"a", ".", "mp3">>), (<<"sub">>)>>
        /\ ~input.onlyMusic => Len(output.value) = Len(input.contents)

\* the mixed set of the scenario, with an upper-case FLAC, has been listed
C22_Witness ==
    /\ Listed /\ input.onlyMusic
    /\ BasenamesOf(input.contents)
          = <<(<<"D", ".", "FLAC">>), (<<"b", ".", "txt">>), (<<"sub">>)>>
    /\ Len(output.value) = 2

\* a track has been built from a file name
Built == input.fn # "none" /\ input.fn # "listing" /\ output.done

\* the placeholder artist of the path that built the track
Placeholder ==
    IF input.fn = "webdavFileToMusicItem" THEN UnknownArtist ELSE BrowserArtist

\* the number of separators ' - ' in a name
Separators(str) == Cardinality({i \in 1..Len(str) : str[i] = " - "})

\* the name with its extension, the last dot and what follows, removed
Stripped(basename) ==
    IF \E i \in 1..(Len(basename) - 1) : basename[i] = "."
    THEN SubSeq(basename, 1,
                (CHOOSE i \in 1..Len(basename) :
                    basename[i] = "." /\ \A j \in (i + 1)..Len(basename) : basename[j] # ".") - 1)
    ELSE basename

\* C23: in every path a track's artist and title come from the file name with
\* its extension stripped: with a single separator ' - ' the left part is the
\* artist and the right part the title, otherwise the artist is the placeholder
\* and the title the whole stripped name
C23_TitleArtistFromName ==
    Built =>
        LET name == Stripped(input.basename)
            at == CHOOSE i \in 1..Len(name) : name[i] = " - "
        IN  IF Separators(name) = 1
            THEN /\ output.value.artist = Trim(SubSeq(name, 1, at - 1))
                 /\ output.value.title = Trim(SubSeq(name, at + 1, Len(name)))
            ELSE /\ output.value.artist = Placeholder
                 /\ output.value.title = name

\* the urls u1, u2, ... stand for absolute http(s) urls, "" for a missing one
WellFormedUrl(url) == url # ""

\* C24: every configuration in the registry, and in what is persisted of it, has
\* a well-formed url: an add or update with a missing url changes neither
C24_RegistryValid ==
    /\ \A i \in 1..Len(servers) : WellFormedUrl(servers[i].url)
    /\ \A i \in 1..Len(storedServers.list) : WellFormedUrl(storedServers.list[i].url)

\* the last loadFiles call made
LastLoad ==
    CHOOSE l \in Loads :
        browser.loads[l].pc # "idle"
        /\ \A k \in Loads : k > l => browser.loads[k].pc = "idle"

\* every load made has settled and every timer has fired or was cleared
LoadsSettled ==
    /\ browser.loads[1].pc # "idle"
    /\ \A l \in Loads : browser.loads[l].pc # "awaiting"
                          /\ browser.loads[l].timer # "armed"

\* C25: once all loads have settled, what the browser shows is the outcome of
\* the load started last: its files, which are those of currentPath, when it
\* resolved in time, its error when it failed or timed out, and the loading
\* indicator is off; a superseded load shows nothing
C25_LatestLoadDisplayed ==
    LoadsSettled =>
        /\ ~browser.isLoading
        /\ browser.loads[LastLoad].path = browser.currentPath
        /\ (browser.loads[LastLoad].outcome = "resolved"
               /\ browser.loads[LastLoad].timer = "cleared")
              => (browser.files = browser.currentPath /\ browser.error = "none")
        /\ (browser.loads[LastLoad].outcome = "rejected"
               \/ browser.loads[LastLoad].timer = "fired")
              => browser.error \in {"failed", "timeout"}

\* C26: the timer of a load has an effect, a timeout error shown or a
\* controller aborted, only when that load is the current one and is pending
C26_TimerAffectsOwnLoad ==
    [][\A l \in Loads :
          (browser.loads[l].timer = "armed" /\ browser'.loads[l].timer = "fired")
          => \/ /\ browser'.aborted = browser.aborted
                /\ browser'.error = browser.error
                /\ browser'.isLoading = browser.isLoading
             \/ browser.ref = l /\ browser.loads[l].pc = "awaiting"]_vars

\* C27: whenever a session is active and no service call is in flight, the
\* active server is one of the registry, also when a delete of an id meets a
\* connect or setDefault of that id whose probe is in flight
C27_ActiveServerListed ==
    (Quiescent /\ currentServer # NullServer)
        => \E i \in 1..Len(servers) : servers[i].id = currentServer.id

\* C28: the writes to storage succeeding, whenever no service call is in flight
\* the persisted last-used id is absent or the id of a registry entry, and it
\* is the active server's id when a session is active
C28_LastUsedIdListed ==
    Quiescent =>
        /\ storedCurrentId = ""
              \/ \E i \in 1..Len(servers) : servers[i].id = storedCurrentId
        /\ currentServer # NullServer => storedCurrentId = currentServer.id

\* C29: a resolution that returns a local cache path returns the content of the
\* remote file it was asked for, written by a download that succeeded: never the
\* content of another remote file of the same leaf name, never the body of a
\* response with a failure status
C29_LocalIsOwnDownload ==
    \A r \in Resolves :
        (resolves[r].pc = "done" /\ resolves[r].isLocal)
            => /\ cacheFiles[resolves[r].file.basename].src = resolves[r].file.filename
               /\ cacheFiles[resolves[r].file.basename].complete

\* C30: the player is initialised once: at most one TrackPlayer.setupPlayer is
\* in flight, none is made after one has succeeded, the two flags are never both
\* true, no flag stays set by a call that failed, and a setupPlayer() that has
\* resolved means that the player is initialised
C30_PlayerInitialisedOnce ==
    /\ Cardinality({k \in Setups : player.setups[k].pc = "setupPlayer"}) <= 1
    /\ \A k \in Setups : ~player.setups[k].afterReady
    /\ ~(player.isPlayerInitializing /\ player.isPlayerInitialized)
    /\ (\A k \in Setups : player.setups[k].pc \in {"idle", "done"})
          => ~player.isPlayerInitializing
    /\ \A k \in Setups :
          player.setups[k].result = "resolved" => player.isPlayerInitialized

====
